---------------------------- MODULE Spec2Model ----------------------------
(***************************************************************************)
(* Model of packages/desktop/src-tauri/src/opencode_config.rs: the agent   *)
(* and command configuration kept in two stores, Markdown files with YAML  *)
(* frontmatter and the JSON document opencode.json.                        *)
(*                                                                         *)
(* A string is a sequence of tokens (a character, or a run of characters   *)
(* that the code only ever inspects as a whole, such as "{file:").  A JSON *)
(* or YAML value is a tagged record, a mapping is a function on the set of *)
(* its keys.                                                               *)
(***************************************************************************)
EXTENDS Integers, Sequences, FiniteSets, TLC

VARIABLES
    entity,      \* the entity the calls of this run are about: an agent or a command
    agentMd,     \* <config>/agent/<AgentName>.md
    projMd,      \* <wd>/.opencode/command/<CommandName>.md
    userMd,      \* <config>/command/<CommandName>.md
    config,      \* <config>/opencode.json
    backup,      \* <config>/opencode.json.openchamber.backup
    promptFiles, \* the files a {file:...} reference can name
    last,        \* the last call: its arguments, its result, the files it wrote, the
                 \* disk before it, whether it repeats a successful call before it
    calls,       \* the number of calls made
    answer,      \* what the last call returned, when it returns more than success
                 \* or an error
    procs        \* the update_agent calls that run at the same time: for each its
                 \* position, its arguments and what it has read

vars == <<entity, agentMd, projMd, userMd, config, backup, promptFiles, last, calls,
          answer, procs>>

-----------------------------------------------------------------------------
(* Bounds of the model *)

\* ordinary field values are the numbers 1..MaxNum
MaxNum == 1
\* the longest body text written and read back
MaxLen == 2
\* the number of calls of a run
MaxCalls == 2

AgentName == "a"
CommandName == "c"
\* another entity of each section of opencode.json, never the target of a call
OtherName == "other"

\* the ordinary (non-body) field the calls update
OrdField == "model"
\* a field a store may hold and no call names
KeptField == "mode"

-----------------------------------------------------------------------------
(* Values: serde_json::Value *)

Null == [t |-> "null"]
Num(n) == [t |-> "num", n |-> n]
Str(s) == [t |-> "str", s |-> s]
Bool(b) == [t |-> "bool", b |-> b]

is_null(v) == v.t = "null"
is_str(v) == v.t = "str"

\* value.as_str().unwrap_or("")  /  .and_then(|v| v.as_str()...).unwrap_or_default()
as_str_or_empty(v) == IF is_str(v) THEN v.s ELSE <<>>

EmptyMap == [k \in {} |-> Null]

contains_key(m, k) == k \in DOMAIN m

\* Map::insert / HashMap::insert
insert(m, k, v) == [x \in DOMAIN m \cup {k} |-> IF x = k THEN v ELSE m[x]]

\* Map::remove / HashMap::remove (the mapping that is left)
remove(m, k) == [x \in DOMAIN m \ {k} |-> m[x]]

is_empty(m) == DOMAIN m = {}

-----------------------------------------------------------------------------
(* Strings *)

Whitespace == {" ", "\n"}

RECURSIVE trim_start(_)
trim_start(s) ==
    IF s # <<>> /\ Head(s) \in Whitespace THEN trim_start(Tail(s)) ELSE s

RECURSIVE trim_end(_)
trim_end(s) ==
    IF s # <<>> /\ s[Len(s)] \in Whitespace
    THEN trim_end(SubSeq(s, 1, Len(s) - 1))
    ELSE s

\* str::trim
trim(s) == trim_end(trim_start(s))

-----------------------------------------------------------------------------
(* Indirection: {file:<target>} *)

FileMarkers == {"{file:", "{FILE:"}

\* PROMPT_FILE_PATTERN: (?i)^\{file:(.+)\}$  ('.' matches no line break)
pattern_matches(s) ==
    /\ Len(s) >= 3
    /\ s[1] \in FileMarkers
    /\ s[Len(s)] = "}"
    /\ \A i \in 2..(Len(s) - 1) : s[i] # "\n"

\* the pattern's capture group 1
pattern_capture(s) == SubSeq(s, 2, Len(s) - 1)

is_prompt_file_reference(value) == pattern_matches(trim(value))

ConfigDir == <<"~", ".config", "opencode">>

NoPath == <<>>

\* Option<PathBuf>: NoPath is None
resolve_prompt_file_path(reference) ==
    LET trimmed == trim(reference) IN
    IF ~pattern_matches(trimmed) THEN NoPath
    ELSE LET target == trim(pattern_capture(trimmed)) IN
         IF target = <<>> THEN NoPath
         ELSE IF Head(target) = "./" THEN ConfigDir \o Tail(target)
         ELSE IF Head(target) = "/" THEN target
         ELSE ConfigDir \o target

-----------------------------------------------------------------------------
(* Files *)

NoFile == [exists |-> FALSE]

\* write_md_file: null values are filtered out, then
\* format!("---\n{}---\n\n{}", yaml_str, body): the text after the closing
\* delimiter line is a line break followed by the body
without_nulls(m) == [k \in {x \in DOMAIN m : ~is_null(m[x])} |-> m[k]]

\* write_md_file with the null values left in the mapping
write_md_file_keeps_nulls(frontmatter, body) ==
    [exists |-> TRUE, yaml |-> frontmatter, rest |-> <<"\n">> \o body]

write_md_file(frontmatter, body) ==
    [exists |-> TRUE, yaml |-> without_nulls(frontmatter), rest |-> <<"\n">> \o body]

\* parse_md_file with the rest taken as it is
parse_md_file_untrimmed(file) == [frontmatter |-> file.yaml, body |-> file.rest]

\* parse_md_file: the YAML block as a mapping, the rest trimmed
parse_md_file(file) == [frontmatter |-> file.yaml, body |-> trim(file.rest)]

\* read_config: a missing file reads as the empty object
read_config(cfg) == IF cfg.exists THEN cfg.doc ELSE EmptyMap

\* write_config with a backup that is there never written again
write_config_first_backup(cfg, bak, doc) ==
    [config |-> [exists |-> TRUE, doc |-> doc],
     backup |-> IF cfg.exists /\ ~bak.exists THEN cfg ELSE bak]

\* write_config: [config |-> the file written, backup |-> the backup file after it]
write_config(cfg, bak, doc) ==
    [config |-> [exists |-> TRUE, doc |-> doc],
     backup |-> IF cfg.exists THEN cfg ELSE bak]

\* config.get(section).and_then(as_object): the section, empty when absent
section_of(doc, section) == IF contains_key(doc, section) THEN doc[section] ELSE EmptyMap

\* ....and_then(|obj| obj.get(name)).and_then(as_object).cloned().unwrap_or_else(Map::new)
existing_entry(doc, section, name) ==
    IF contains_key(section_of(doc, section), name)
    THEN section_of(doc, section)[name]
    ELSE EmptyMap

\* with_entry with the section made anew around the one record
with_entry_alone(doc, section, name, record) ==
    insert(doc, section, insert(EmptyMap, name, record))

\* config_obj.entry(section).or_insert_with(Map::new) ... insert(name, record)
with_entry(doc, section, name, record) ==
    insert(doc, section, insert(section_of(doc, section), name, record))

\* write_prompt_file
write_prompt_file(files, path, content) ==
    [p \in DOMAIN files \cup {path} |->
        IF p = path THEN [exists |-> TRUE, content |-> content] ELSE files[p]]

-----------------------------------------------------------------------------
(* The state of the disk, and what a call does to it *)

Disk == [agentMd |-> agentMd, projMd |-> projMd, userMd |-> userMd,
         config |-> config, backup |-> backup, promptFiles |-> promptFiles]

\* the outcome of a call: its result, the disk after it, the files it wrote
Outcome(res, d, writes) == [res |-> res, disk |-> d, writes |-> writes]

-----------------------------------------------------------------------------
(* create_agent *)

create_agent(d, cfg) ==
    IF d.agentMd.exists THEN Outcome("exists", d, {})
    ELSE IF contains_key(section_of(read_config(d.config), "agent"), AgentName)
    THEN Outcome("exists", d, {})
    ELSE LET frontmatter == remove(cfg, "prompt")
             prompt == IF contains_key(cfg, "prompt")
                       THEN as_str_or_empty(cfg["prompt"]) ELSE <<>>
         IN Outcome("ok",
                    [d EXCEPT !.agentMd = write_md_file(frontmatter, prompt)],
                    {"agentMd"})

-----------------------------------------------------------------------------
(* update_agent *)

\* the loop's variables before the first field
agent_loop_start(d) ==
    LET md_exists == d.agentMd.exists
        md_data == IF md_exists THEN parse_md_file(d.agentMd)
                   ELSE [frontmatter |-> EmptyMap, body |-> <<>>]
    IN [frontmatter |-> md_data.frontmatter,
        body |-> md_data.body,
        existing |-> existing_entry(read_config(d.config), "agent", AgentName),
        md_modified |-> FALSE,
        json_modified |-> FALSE,
        promptFiles |-> d.promptFiles,
        wrote_prompt |-> FALSE,
        err |-> FALSE]

\* agent_remove_field with the removal from the structured record forgotten
agent_remove_field_md_only(st, md_exists, field) ==
    LET in_fm == md_exists /\ contains_key(st.frontmatter, field)
    IN [st EXCEPT !.frontmatter = IF in_fm THEN remove(@, field) ELSE @,
                  !.md_modified = @ \/ in_fm]

\* agent_remove_field flagging both stores whether or not it removed anything
agent_remove_field_always_flags(st, md_exists, field) ==
    LET in_fm == md_exists /\ contains_key(st.frontmatter, field)
        in_js == contains_key(st.existing, field)
    IN [st EXCEPT !.frontmatter = IF in_fm THEN remove(@, field) ELSE @,
                  !.md_modified = TRUE,
                  !.existing = IF in_js THEN remove(@, field) ELSE @,
                  !.json_modified = TRUE]

\* the null branch of the loop body: explicit removal
agent_remove_field(st, md_exists, field) ==
    LET in_fm == md_exists /\ contains_key(st.frontmatter, field)
        in_js == contains_key(st.existing, field)
    IN [st EXCEPT !.frontmatter = IF in_fm THEN remove(@, field) ELSE @,
                  !.md_modified = @ \/ in_fm,
                  !.existing = IF in_js THEN remove(@, field) ELSE @,
                  !.json_modified = @ \/ in_js]

\* agent_prompt_field with the reference case falling through to the structured
\* record (its `continue` missing)
agent_prompt_field_ref_falls_through(st, md_exists, value) ==
    LET normalized_value == as_str_or_empty(value)
        to_json(s) == [s EXCEPT !.existing = insert(@, "prompt", Str(normalized_value)),
                                !.json_modified = TRUE]
    IN IF md_exists
       THEN to_json([st EXCEPT !.body = normalized_value, !.md_modified = TRUE])
       ELSE IF /\ contains_key(st.existing, "prompt")
               /\ is_str(st.existing["prompt"])
               /\ is_prompt_file_reference(st.existing["prompt"].s)
       THEN LET prompt_file_path == resolve_prompt_file_path(st.existing["prompt"].s) IN
            IF prompt_file_path # NoPath
            THEN to_json([st EXCEPT !.promptFiles =
                                write_prompt_file(@, prompt_file_path, normalized_value),
                            !.wrote_prompt = TRUE])
            ELSE [st EXCEPT !.err = TRUE]
       ELSE to_json(st)

\* agent_prompt_field with a reference that does not resolve replaced by the
\* new prompt in the structured record, without an error
agent_prompt_field_unresolved_to_json(st, md_exists, value) ==
    LET normalized_value == as_str_or_empty(value)
        to_json(s) == [s EXCEPT !.existing = insert(@, "prompt", Str(normalized_value)),
                                !.json_modified = TRUE]
    IN IF md_exists
       THEN to_json([st EXCEPT !.body = normalized_value, !.md_modified = TRUE])
       ELSE IF /\ contains_key(st.existing, "prompt")
               /\ is_str(st.existing["prompt"])
               /\ is_prompt_file_reference(st.existing["prompt"].s)
       THEN LET prompt_file_path == resolve_prompt_file_path(st.existing["prompt"].s) IN
            IF prompt_file_path # NoPath
            THEN [st EXCEPT !.promptFiles =
                                write_prompt_file(@, prompt_file_path, normalized_value),
                            !.wrote_prompt = TRUE]
            ELSE to_json(st)
       ELSE to_json(st)

\* the prompt branch of the loop body
agent_prompt_field(st, md_exists, value) ==
    LET normalized_value == as_str_or_empty(value)
        to_json(s) == [s EXCEPT !.existing = insert(@, "prompt", Str(normalized_value)),
                                !.json_modified = TRUE]
    IN IF md_exists
       THEN to_json([st EXCEPT !.body = normalized_value, !.md_modified = TRUE])
       ELSE IF /\ contains_key(st.existing, "prompt")
               /\ is_str(st.existing["prompt"])
               /\ is_prompt_file_reference(st.existing["prompt"].s)
       THEN LET prompt_file_path == resolve_prompt_file_path(st.existing["prompt"].s) IN
            IF prompt_file_path # NoPath
            THEN [st EXCEPT !.promptFiles =
                                write_prompt_file(@, prompt_file_path, normalized_value),
                            !.wrote_prompt = TRUE]
            ELSE [st EXCEPT !.err = TRUE]
       ELSE to_json(st)

\* agent_ordinary_field with a new field going to the frontmatter whenever the
\* file exists (the rule for two active stores dropped)
agent_ordinary_field_md_first(st, md_exists, field, value) ==
    LET in_md == md_exists /\ contains_key(st.frontmatter, field)
        in_json == contains_key(st.existing, field)
        to_md == [st EXCEPT !.frontmatter = insert(@, field, value),
                            !.md_modified = TRUE]
        to_json == [st EXCEPT !.existing = insert(@, field, value),
                              !.json_modified = TRUE]
    IN IF in_md THEN to_md
       ELSE IF in_json THEN to_json
       ELSE IF md_exists THEN to_md
       ELSE to_json

\* agent_ordinary_field with the structured record asked before the frontmatter
agent_ordinary_field_json_first(st, md_exists, field, value) ==
    LET in_md == md_exists /\ contains_key(st.frontmatter, field)
        in_json == contains_key(st.existing, field)
        to_md == [st EXCEPT !.frontmatter = insert(@, field, value),
                            !.md_modified = TRUE]
        to_json == [st EXCEPT !.existing = insert(@, field, value),
                              !.json_modified = TRUE]
    IN IF in_json THEN to_json
       ELSE IF in_md THEN to_md
       ELSE IF md_exists /\ ~is_empty(st.existing) THEN to_json
       ELSE IF md_exists THEN to_md
       ELSE to_json

\* the branch of the loop body for every other field
agent_ordinary_field(st, md_exists, field, value) ==
    LET in_md == md_exists /\ contains_key(st.frontmatter, field)
        in_json == contains_key(st.existing, field)
        to_md == [st EXCEPT !.frontmatter = insert(@, field, value),
                            !.md_modified = TRUE]
        to_json == [st EXCEPT !.existing = insert(@, field, value),
                              !.json_modified = TRUE]
    IN IF in_md THEN to_md
       ELSE IF in_json THEN to_json
       ELSE IF md_exists /\ ~is_empty(st.existing) THEN to_json
       ELSE IF md_exists THEN to_md
       ELSE to_json

agent_field(st, md_exists, field, value) ==
    IF is_null(value) THEN agent_remove_field(st, md_exists, field)
    ELSE IF field = "prompt" THEN agent_prompt_field(st, md_exists, value)
    ELSE agent_ordinary_field(st, md_exists, field, value)

\* for (field, value) in updates.iter(): order is the iteration order of the
\* HashMap, which the caller does not control; an error ends the loop
RECURSIVE agent_loop(_, _, _, _)
agent_loop(st, md_exists, updates, order) ==
    IF order = <<>> \/ st.err THEN st
    ELSE agent_loop(agent_field(st, md_exists, Head(order), updates[Head(order)]),
                    md_exists, updates, Tail(order))

\* update_agent with the structured write made whenever the record changed
update_agent_no_suppression(d, updates, order) ==
    LET md_exists == d.agentMd.exists
        st0 == agent_loop_start(d)
        st == agent_loop(st0, md_exists, updates, order)
        d1 == [d EXCEPT !.promptFiles = st.promptFiles]
        w1 == IF st.wrote_prompt THEN {"promptFile"} ELSE {}
    IN IF st.err THEN Outcome("badref", d1, w1)
       ELSE LET write_md == st.md_modified /\ md_exists
                d2 == IF write_md
                      THEN [d1 EXCEPT !.agentMd = write_md_file(st.frontmatter, st.body)]
                      ELSE d1
                write_json == st.json_modified
                written == write_config(d.config, d.backup,
                               with_entry(read_config(d.config), "agent", AgentName,
                                          st.existing))
                d3 == IF write_json
                      THEN [d2 EXCEPT !.config = written.config, !.backup = written.backup]
                      ELSE d2
            IN Outcome("ok", d3,
                       w1 \cup (IF write_md THEN {"agentMd"} ELSE {})
                          \cup (IF write_json THEN {"config"} ELSE {})
                          \cup (IF write_json /\ d.config.exists THEN {"backup"} ELSE {}))

update_agent(d, updates, order) ==
    LET md_exists == d.agentMd.exists
        st0 == agent_loop_start(d)
        had_json_fields == ~is_empty(st0.existing)
        st == agent_loop(st0, md_exists, updates, order)
        d1 == [d EXCEPT !.promptFiles = st.promptFiles]
        w1 == IF st.wrote_prompt THEN {"promptFile"} ELSE {}
    IN IF st.err THEN Outcome("badref", d1, w1)
       ELSE LET write_md == st.md_modified /\ md_exists
                d2 == IF write_md
                      THEN [d1 EXCEPT !.agentMd = write_md_file(st.frontmatter, st.body)]
                      ELSE d1
                write_json == st.json_modified /\ ~(md_exists /\ ~had_json_fields)
                written == write_config(d.config, d.backup,
                               with_entry(read_config(d.config), "agent", AgentName,
                                          st.existing))
                d3 == IF write_json
                      THEN [d2 EXCEPT !.config = written.config, !.backup = written.backup]
                      ELSE d2
            IN Outcome("ok", d3,
                       w1 \cup (IF write_md THEN {"agentMd"} ELSE {})
                          \cup (IF write_json THEN {"config"} ELSE {})
                          \cup (IF write_json /\ d.config.exists THEN {"backup"} ELSE {}))

-----------------------------------------------------------------------------
(* delete_agent *)

\* delete_agent failing, as delete_command does, when there is nothing to delete
delete_agent_not_found(d) ==
    LET md_deleted == d.agentMd.exists
        d1 == [d EXCEPT !.agentMd = NoFile]
        doc == read_config(d.config)
        in_json == contains_key(doc, "agent") /\ contains_key(doc["agent"], AgentName)
        removed == write_config(d.config, d.backup,
                       insert(doc, "agent", remove(section_of(doc, "agent"), AgentName)))
        cfgw == {"config"} \cup (IF d.config.exists THEN {"backup"} ELSE {})
    IN IF in_json
       THEN Outcome("ok", [d1 EXCEPT !.config = removed.config, !.backup = removed.backup],
                    cfgw \cup (IF md_deleted THEN {"agentMd"} ELSE {}))
       ELSE IF md_deleted THEN Outcome("ok", d1, {"agentMd"})
       ELSE Outcome("notfound", d1, {})

delete_agent(d) ==
    LET md_deleted == d.agentMd.exists
        d1 == [d EXCEPT !.agentMd = NoFile]
        doc == read_config(d.config)
        has_section == contains_key(doc, "agent")
        in_json == has_section /\ contains_key(doc["agent"], AgentName)
        removed == write_config(d.config, d.backup,
                       insert(doc, "agent", remove(section_of(doc, "agent"), AgentName)))
        disabled == write_config(d.config, d.backup,
                        with_entry(doc, "agent", AgentName,
                                   insert(EmptyMap, "disable", Bool(TRUE))))
        cfgw == {"config"} \cup (IF d.config.exists THEN {"backup"} ELSE {})
    IN IF in_json
       THEN Outcome("ok", [d1 EXCEPT !.config = removed.config, !.backup = removed.backup],
                    cfgw \cup (IF md_deleted THEN {"agentMd"} ELSE {}))
       ELSE IF md_deleted THEN Outcome("ok", d1, {"agentMd"})
       ELSE Outcome("ok", [d1 EXCEPT !.config = disabled.config, !.backup = disabled.backup],
                    cfgw)

-----------------------------------------------------------------------------
(* Command scope.  wd: a working directory is supplied (there is one).     *)
(* A path is the name of the file it leads to, projMd or userMd; a scope   *)
(* is "project", "user" or "none" (None).                                  *)

\* get_command_scope with the user file asked first
get_command_scope_user_first(d, wd) ==
    IF d.userMd.exists THEN [scope |-> "user", path |-> "userMd"]
    ELSE IF wd /\ d.projMd.exists THEN [scope |-> "project", path |-> "projMd"]
    ELSE [scope |-> "none", path |-> "none"]

get_command_scope(d, wd) ==
    IF wd /\ d.projMd.exists THEN [scope |-> "project", path |-> "projMd"]
    ELSE IF d.userMd.exists THEN [scope |-> "user", path |-> "userMd"]
    ELSE [scope |-> "none", path |-> "none"]

\* get_command_write_path with the requested scope asked before the existing
\* location
get_command_write_path_request_first(d, wd, requested_scope) ==
    LET existing == get_command_scope(d, wd)
    IN IF requested_scope = "project" /\ wd THEN [scope |-> "project", path |-> "projMd"]
       ELSE IF existing.path # "none" THEN existing
       ELSE [scope |-> "user", path |-> "userMd"]

\* get_command_write_path that knows the user path only
get_command_write_path_user_only(d, wd, requested_scope) ==
    [scope |-> "user", path |-> "userMd"]

get_command_write_path(d, wd, requested_scope) ==
    LET existing == get_command_scope(d, wd)
        scope == IF requested_scope = "none" THEN "user" ELSE requested_scope
    IN IF existing.path # "none" THEN existing
       ELSE IF scope = "project" /\ wd THEN [scope |-> "project", path |-> "projMd"]
       ELSE [scope |-> "user", path |-> "userMd"]

\* path.exists() and the file at a path
file_at(d, path) == IF path = "projMd" THEN d.projMd ELSE d.userMd

\* the disk with the file at a path replaced
put_file(d, path, file) ==
    IF path = "projMd" THEN [d EXCEPT !.projMd = file] ELSE [d EXCEPT !.userMd = file]

-----------------------------------------------------------------------------
(* get_command_sources: ConfigSources.  The field lists are the sets of    *)
(* their members (the code lists the keys in the order the maps iterate).  *)

get_command_sources(d, wd) ==
    LET project_exists == wd /\ d.projMd.exists
        user_exists == d.userMd.exists
        md_path == IF project_exists THEN "projMd"
                   ELSE IF user_exists THEN "userMd" ELSE "none"
        md_exists == project_exists \/ user_exists
        md_scope == IF project_exists THEN "project"
                    ELSE IF user_exists THEN "user" ELSE "none"
        md_data == parse_md_file(file_at(d, md_path))
        md_fields == IF md_exists
                     THEN DOMAIN md_data.frontmatter
                              \cup (IF trim(md_data.body) # <<>> THEN {"template"} ELSE {})
                     ELSE {}
        section == section_of(read_config(d.config), "command")
        json_exists == contains_key(section, CommandName)
    IN [md |-> [exists |-> md_exists, path |-> md_path, fields |-> md_fields,
                scope |-> md_scope],
        json |-> [exists |-> json_exists,
                  fields |-> IF json_exists THEN DOMAIN section[CommandName] ELSE {}],
        project_md |-> [exists |-> project_exists,
                        path |-> IF wd THEN "projMd" ELSE "none"],
        user_md |-> [exists |-> user_exists, path |-> "userMd"]]

-----------------------------------------------------------------------------
(* create_command *)

\* create_command with the project-level check forgotten
create_command_no_project_check(d, cfg, wd, scope) ==
    IF d.userMd.exists THEN Outcome("exists", d, {})
    ELSE IF contains_key(section_of(read_config(d.config), "command"), CommandName)
    THEN Outcome("exists", d, {})
    ELSE LET target_path == IF scope = "project" /\ wd THEN "projMd" ELSE "userMd"
             template == IF contains_key(cfg, "template")
                         THEN as_str_or_empty(cfg["template"]) ELSE <<>>
             frontmatter == remove(remove(cfg, "template"), "scope")
         IN Outcome("ok",
                    put_file(d, target_path, write_md_file(frontmatter, template)),
                    {target_path})

\* create_command with the scope hint left among the fields
create_command_keeps_scope(d, cfg, wd, scope) ==
    IF wd /\ d.projMd.exists THEN Outcome("exists", d, {})
    ELSE IF d.userMd.exists THEN Outcome("exists", d, {})
    ELSE IF contains_key(section_of(read_config(d.config), "command"), CommandName)
    THEN Outcome("exists", d, {})
    ELSE LET target_path == IF scope = "project" /\ wd THEN "projMd" ELSE "userMd"
             template == IF contains_key(cfg, "template")
                         THEN as_str_or_empty(cfg["template"]) ELSE <<>>
             frontmatter == remove(cfg, "template")
         IN Outcome("ok",
                    put_file(d, target_path, write_md_file(frontmatter, template)),
                    {target_path})

create_command(d, cfg, wd, scope) ==
    IF wd /\ d.projMd.exists THEN Outcome("exists", d, {})
    ELSE IF d.userMd.exists THEN Outcome("exists", d, {})
    ELSE IF contains_key(section_of(read_config(d.config), "command"), CommandName)
    THEN Outcome("exists", d, {})
    ELSE LET target_path == IF scope = "project" /\ wd THEN "projMd" ELSE "userMd"
             template == IF contains_key(cfg, "template")
                         THEN as_str_or_empty(cfg["template"]) ELSE <<>>
             frontmatter == remove(remove(cfg, "template"), "scope")
         IN Outcome("ok",
                    put_file(d, target_path, write_md_file(frontmatter, template)),
                    {target_path})

-----------------------------------------------------------------------------
(* update_command *)

\* the loop's variables before the first field
command_loop_start(d, md_path) ==
    LET md_exists == file_at(d, md_path).exists
        md_data == IF md_exists THEN parse_md_file(file_at(d, md_path))
                   ELSE [frontmatter |-> EmptyMap, body |-> <<>>]
    IN [frontmatter |-> md_data.frontmatter,
        body |-> md_data.body,
        existing |-> existing_entry(read_config(d.config), "command", CommandName),
        md_modified |-> FALSE,
        json_modified |-> FALSE,
        promptFiles |-> d.promptFiles,
        wrote_prompt |-> FALSE,
        err |-> FALSE]

\* the null branch of the loop body: explicit removal
command_remove_field(st, md_exists, field) ==
    LET in_fm == md_exists /\ contains_key(st.frontmatter, field)
        in_js == contains_key(st.existing, field)
    IN [st EXCEPT !.frontmatter = IF in_fm THEN remove(@, field) ELSE @,
                  !.md_modified = @ \/ in_fm,
                  !.existing = IF in_js THEN remove(@, field) ELSE @,
                  !.json_modified = @ \/ in_js]

\* the template branch of the loop body
command_template_field(st, md_exists, creating_new_md, value) ==
    LET normalized_value == as_str_or_empty(value)
        to_body == [st EXCEPT !.body = normalized_value, !.md_modified = TRUE]
    IN IF md_exists \/ creating_new_md THEN to_body
       ELSE IF /\ contains_key(st.existing, "template")
               /\ is_str(st.existing["template"])
               /\ is_prompt_file_reference(st.existing["template"].s)
       THEN LET template_file_path ==
                    resolve_prompt_file_path(st.existing["template"].s) IN
            IF template_file_path # NoPath
            THEN [st EXCEPT !.promptFiles =
                                write_prompt_file(@, template_file_path, normalized_value),
                            !.wrote_prompt = TRUE]
            ELSE [st EXCEPT !.err = TRUE]
       ELSE to_body

\* the branch of the loop body for every other field
command_ordinary_field(st, md_exists, creating_new_md, field, value) ==
    LET in_md == contains_key(st.frontmatter, field)
        in_json == contains_key(st.existing, field)
        to_md == [st EXCEPT !.frontmatter = insert(@, field, value),
                            !.md_modified = TRUE]
        to_json == [st EXCEPT !.existing = insert(@, field, value),
                              !.json_modified = TRUE]
    IN IF in_md \/ creating_new_md THEN to_md
       ELSE IF in_json THEN to_json
       ELSE IF md_exists \/ creating_new_md THEN to_md
       ELSE to_json

command_field(st, md_exists, creating_new_md, field, value) ==
    IF is_null(value) THEN command_remove_field(st, md_exists, field)
    ELSE IF field = "template"
    THEN command_template_field(st, md_exists, creating_new_md, value)
    ELSE command_ordinary_field(st, md_exists, creating_new_md, field, value)

RECURSIVE command_loop(_, _, _, _, _)
command_loop(st, md_exists, creating_new_md, updates, order) ==
    IF order = <<>> \/ st.err THEN st
    ELSE command_loop(command_field(st, md_exists, creating_new_md,
                                    Head(order), updates[Head(order)]),
                      md_exists, creating_new_md, updates, Tail(order))

update_command(d, updates, order, wd) ==
    LET md_path == get_command_write_path(d, wd, "none").path
        md_exists == file_at(d, md_path).exists
        target_path == IF ~md_exists THEN "userMd" ELSE md_path
        creating_new_md == ~md_exists
        st0 == command_loop_start(d, md_path)
        had_json_fields == ~is_empty(st0.existing)
        st == command_loop(st0, md_exists, creating_new_md, updates, order)
        d1 == [d EXCEPT !.promptFiles = st.promptFiles]
        w1 == IF st.wrote_prompt THEN {"promptFile"} ELSE {}
    IN IF st.err THEN Outcome("badref", d1, w1)
       ELSE LET write_md == st.md_modified
                d2 == IF write_md
                      THEN put_file(d1, target_path,
                                    write_md_file(st.frontmatter, st.body))
                      ELSE d1
                write_json == st.json_modified /\ ~(md_exists /\ ~had_json_fields)
                written == write_config(d.config, d.backup,
                               with_entry(read_config(d.config), "command", CommandName,
                                          st.existing))
                d3 == IF write_json
                      THEN [d2 EXCEPT !.config = written.config, !.backup = written.backup]
                      ELSE d2
            IN Outcome("ok", d3,
                       w1 \cup (IF write_md THEN {target_path} ELSE {})
                          \cup (IF write_json THEN {"config"} ELSE {})
                          \cup (IF write_json /\ d.config.exists THEN {"backup"} ELSE {}))

-----------------------------------------------------------------------------
(* delete_command *)

\* delete_command stopping at the first location that holds the name
delete_command_first_only(d, wd) ==
    LET doc == read_config(d.config)
        in_json == contains_key(doc, "command") /\ contains_key(doc["command"], CommandName)
        removed == write_config(d.config, d.backup,
                       insert(doc, "command",
                              remove(section_of(doc, "command"), CommandName)))
    IN IF wd /\ d.projMd.exists THEN Outcome("ok", [d EXCEPT !.projMd = NoFile], {"projMd"})
       ELSE IF d.userMd.exists THEN Outcome("ok", [d EXCEPT !.userMd = NoFile], {"userMd"})
       ELSE IF in_json
       THEN Outcome("ok", [d EXCEPT !.config = removed.config, !.backup = removed.backup],
                    {"config"} \cup (IF d.config.exists THEN {"backup"} ELSE {}))
       ELSE Outcome("notfound", d, {})

delete_command(d, wd) ==
    LET proj_deleted == wd /\ d.projMd.exists
        user_deleted == d.userMd.exists
        d1 == [d EXCEPT !.projMd = IF proj_deleted THEN NoFile ELSE @,
                        !.userMd = NoFile]
        doc == read_config(d.config)
        in_json == contains_key(doc, "command") /\ contains_key(doc["command"], CommandName)
        removed == write_config(d.config, d.backup,
                       insert(doc, "command",
                              remove(section_of(doc, "command"), CommandName)))
        mdw == (IF proj_deleted THEN {"projMd"} ELSE {})
                   \cup (IF user_deleted THEN {"userMd"} ELSE {})
    IN IF in_json
       THEN Outcome("ok", [d1 EXCEPT !.config = removed.config, !.backup = removed.backup],
                    mdw \cup {"config"} \cup (IF d.config.exists THEN {"backup"} ELSE {}))
       ELSE IF proj_deleted \/ user_deleted THEN Outcome("ok", d1, mdw)
       ELSE Outcome("notfound", d1, {})

-----------------------------------------------------------------------------
(* The inputs of the calls *)

TextOld == <<"old">>
\* a text with leading white space
TextNew == <<" ", "new">>

\* references: relative with ./, absolute (upper case, padded), one whose
\* target is blank
RefDot == <<"{file:", "./", "p.txt">>  \o <<"}">>
RefAbs == <<" ", "{FILE:", "/", "p.txt", "}", " ">>
RefBlank == <<"{file:", " ", "}">>

\* the value of an ordinary field the disk starts with, and those calls give
OrdOld == Num(0)
OrdValues == {Num(n) : n \in 1..MaxNum}

\* the update sets over the body key and the ordinary field
UpdateSets(body_key) ==
    LET body_values == {Null, Str(TextNew)}
        ord_values == {Null} \cup OrdValues
    IN {EmptyMap, insert(EmptyMap, body_key, Num(1))}
       \cup {insert(EmptyMap, body_key, b) : b \in body_values}
       \cup {insert(EmptyMap, OrdField, v) : v \in ord_values}
       \cup {insert(insert(EmptyMap, body_key, b), OrdField, v) :
                 b \in body_values, v \in ord_values}

\* the orders in which a HashMap over the keys S can iterate
Orders(S) ==
    {o \in [1..Cardinality(S) -> S] : \A i, j \in DOMAIN o : o[i] = o[j] => i = j}

\* the field sets given to create
FullConfig(body_key) ==
    insert(insert(insert(EmptyMap, body_key, Str(TextNew)), OrdField, Num(1)),
           "scope", Str(<<"project">>))

CreateConfigs(body_key) ==
    { EmptyMap,
      insert(insert(EmptyMap, body_key, Num(1)), OrdField, Null),
      FullConfig(body_key) }

Scopes == {"none", "user", "project"}

\* create_command's arguments: every working directory and scope with one
\* field set, the other field sets with one working directory and scope
CreateCommandArgs ==
    {[cfg |-> FullConfig("template"), wd |-> w, scope |-> sc] :
        w \in BOOLEAN, sc \in Scopes}
    \cup {[cfg |-> c, wd |-> TRUE, scope |-> "none"] : c \in CreateConfigs("template")}

-----------------------------------------------------------------------------
(* The initial disk: what the user, or earlier runs of the program, left.  *)
(* opencode.json is an object whose sections are objects of objects.  One  *)
(* entity, the target of the run's calls, starts with a choice of files    *)
(* and records, the other with none.                                       *)

MdPlain == write_md_file(EmptyMap, <<>>)
MdFull == write_md_file(insert(EmptyMap, OrdField, OrdOld), TextOld)

InitMds == {NoFile, MdPlain, write_md_file(EmptyMap, TextOld), MdFull}

\* the command files: none, one, or both
InitCommandMds ==
    {<<NoFile, NoFile>>, <<MdPlain, NoFile>>, <<MdFull, NoFile>>,
     <<NoFile, MdPlain>>, <<NoFile, MdFull>>, <<MdFull, MdPlain>>, <<MdPlain, MdFull>>}

\* the records opencode.json may hold for an entity
InitRecords(body_key) ==
    LET with_ord(r) == {r, insert(r, OrdField, OrdOld)}
        with_kept(r) == {r, insert(r, KeptField, Str(<<"build">>))}
        base == {EmptyMap, insert(EmptyMap, body_key, Str(TextOld))}
    IN UNION {UNION {with_kept(r2) : r2 \in with_ord(r1)} : r1 \in base}
       \cup {insert(EmptyMap, body_key, Str(ref)) : ref \in {RefDot, RefAbs, RefBlank}}
       \cup {insert(insert(EmptyMap, body_key, Str(RefDot)), OrdField, OrdOld)}

OtherRecord == insert(EmptyMap, OrdField, OrdOld)

\* a document with a record for the entity of one section
DocWith(section, name, record) ==
    [agent |-> IF section = "agent"
               THEN insert(insert(EmptyMap, OtherName, OtherRecord), name, record)
               ELSE insert(EmptyMap, OtherName, OtherRecord),
     command |-> IF section = "command"
                 THEN insert(insert(EmptyMap, OtherName, OtherRecord), name, record)
                 ELSE insert(EmptyMap, OtherName, OtherRecord),
     theme |-> Str(<<"dark">>)]

\* documents with no record for either entity
BareConfigs ==
    { NoFile,
      [exists |-> TRUE, doc |-> insert(EmptyMap, "theme", Str(<<"dark">>))],
      [exists |-> TRUE, doc |-> DocWith("none", "none", EmptyMap)] }

InitConfigs(section, name, body_key) ==
    BareConfigs \cup
    {[exists |-> TRUE, doc |-> DocWith(section, name, r)] : r \in InitRecords(body_key)}

\* a call that returns () or an error has no answer
NoAnswer == [none |-> TRUE]

\* the calls that can run at the same time
Procs == {1, 2}

\* a call that has not begun
NotStarted == [pc |-> "start"]

NoCall ==
    [op |-> "none", args |-> EmptyMap, order |-> <<>>, wd |-> FALSE, scope |-> "none",
     res |-> "none", writes |-> {}, repeat |-> FALSE]

Init ==
    /\ \/ /\ entity = "agent"
          /\ agentMd \in InitMds
          /\ config \in InitConfigs("agent", AgentName, "prompt")
          /\ projMd = NoFile
          /\ userMd = NoFile
       \/ /\ entity = "command"
          /\ agentMd = NoFile
          /\ config \in InitConfigs("command", CommandName, "template")
          /\ \E mds \in InitCommandMds : projMd = mds[1] /\ userMd = mds[2]
    /\ backup = NoFile
    /\ promptFiles = EmptyMap
    /\ calls = 0
    /\ last = NoCall @@ [pre |-> Disk]
    /\ answer = NoAnswer
    /\ procs = [p \in Procs |-> NotStarted]

-----------------------------------------------------------------------------
(* The calls *)

\* a call's outcome becomes the state
Apply(op, args, order, wd, scope, out) ==
    /\ calls < MaxCalls
    /\ calls' = calls + 1
    /\ entity' = entity
    /\ agentMd' = out.disk.agentMd
    /\ projMd' = out.disk.projMd
    /\ userMd' = out.disk.userMd
    /\ config' = out.disk.config
    /\ backup' = out.disk.backup
    /\ promptFiles' = out.disk.promptFiles
    /\ last' = [op |-> op, args |-> args, order |-> order, wd |-> wd, scope |-> scope,
                res |-> out.res, writes |-> out.writes,
                repeat |-> last.op = op /\ last.args = args /\ last.wd = wd
                           /\ last.scope = scope /\ last.res = "ok",
                pre |-> Disk]
    /\ answer' = NoAnswer
    /\ UNCHANGED procs

CreateAgent ==
    /\ entity = "agent"
    /\ \E cfg \in CreateConfigs("prompt") :
          Apply("create_agent", cfg, <<>>, FALSE, "none", create_agent(Disk, cfg))

UpdateAgent ==
    /\ entity = "agent"
    /\ \E updates \in UpdateSets("prompt") : \E order \in Orders(DOMAIN updates) :
        Apply("update_agent", updates, order, FALSE, "none",
              update_agent(Disk, updates, order))

DeleteAgent ==
    /\ entity = "agent"
    /\ Apply("delete_agent", EmptyMap, <<>>, FALSE, "none", delete_agent(Disk))

CreateCommand ==
    /\ entity = "command"
    /\ \E a \in CreateCommandArgs :
        Apply("create_command", a.cfg, <<>>, a.wd, a.scope,
              create_command(Disk, a.cfg, a.wd, a.scope))

UpdateCommand ==
    /\ entity = "command"
    /\ \E updates \in UpdateSets("template") : \E order \in Orders(DOMAIN updates) :
      \E wd \in BOOLEAN :
        Apply("update_command", updates, order, wd, "none",
              update_command(Disk, updates, order, wd))

DeleteCommand ==
    /\ entity = "command"
    /\ \E wd \in BOOLEAN :
        Apply("delete_command", EmptyMap, <<>>, wd, "none", delete_command(Disk, wd))

Next ==
    \/ CreateAgent
    \/ UpdateAgent
    \/ DeleteAgent
    \/ CreateCommand
    \/ UpdateCommand
    \/ DeleteCommand

Spec == Init /\ [][Next]_vars

-----------------------------------------------------------------------------
(* The calls that only read: they change no file and return an answer *)

Ask(op, wd, scope, ans) ==
    /\ calls < MaxCalls
    /\ calls' = calls + 1
    /\ UNCHANGED <<entity, agentMd, projMd, userMd, config, backup, promptFiles>>
    /\ last' = [op |-> op, args |-> EmptyMap, order |-> <<>>, wd |-> wd, scope |-> scope,
                res |-> "ok", writes |-> {}, repeat |-> FALSE, pre |-> Disk]
    /\ answer' = ans
    /\ UNCHANGED procs

GetCommandScope ==
    /\ entity = "command"
    /\ \E wd \in BOOLEAN :
        Ask("get_command_scope", wd, "none", get_command_scope(Disk, wd))

GetCommandWritePath ==
    /\ entity = "command"
    /\ \E wd \in BOOLEAN : \E requested_scope \in Scopes :
        Ask("get_command_write_path", wd, requested_scope,
            get_command_write_path(Disk, wd, requested_scope))

GetCommandSources ==
    /\ entity = "command"
    /\ \E wd \in BOOLEAN :
        Ask("get_command_sources", wd, "none", get_command_sources(Disk, wd))

\* the calls on commands, those that read among them
NextCommand ==
    \/ CreateCommand
    \/ UpdateCommand
    \/ DeleteCommand
    \/ GetCommandScope
    \/ GetCommandWritePath
    \/ GetCommandSources

SpecCommand == Init /\ [][NextCommand]_vars

-----------------------------------------------------------------------------
(* update_agent calls that run at the same time.  Each .await of the call  *)
(* is a step: parse_md_file, read_config (with the loop that follows it),  *)
(* write_md_file, write_config.  Between the steps of one call the other   *)
(* call may take its own.                                                  *)

\* the update sets of the calls that race
RaceUpdates ==
    {insert(EmptyMap, "prompt", Str(TextNew)), insert(EmptyMap, OrdField, Null)}
    \cup {insert(EmptyMap, OrdField, v) : v \in OrdValues}

\* race_written with the update set applied to the document now on disk
race_written_isolated(call, now) ==
    LET again == update_agent([call.out.disk EXCEPT !.config = now],
                              call.updates, call.order)
    IN IF "config" \in again.writes THEN again.disk.config ELSE now

\* the document a call hands to write_config: the one it read, with its own
\* record replaced; the document now on disk is not looked at
race_written(call, now) == call.out.disk.config

\* md_path.exists() and parse_md_file
RaceReadMd(p) ==
    /\ entity = "agent"
    /\ procs[p].pc = "start"
    /\ \E updates \in RaceUpdates : \E order \in Orders(DOMAIN updates) :
        procs' = [procs EXCEPT ![p] = [pc |-> "md_read", updates |-> updates,
                                       order |-> order, md |-> agentMd]]
    /\ UNCHANGED <<entity, agentMd, projMd, userMd, config, backup, promptFiles, last,
                   calls, answer>>

\* read_config and the loop over the update set; a prompt behind a reference
\* is written in the loop, a reference that does not resolve ends the call
RaceReadConfig(p) ==
    /\ procs[p].pc = "md_read"
    /\ LET snapshot == [Disk EXCEPT !.agentMd = procs[p].md]
           out == update_agent(snapshot, procs[p].updates, procs[p].order)
       IN /\ promptFiles' = out.disk.promptFiles
          /\ procs' = [procs EXCEPT ![p] =
                          [pc |-> IF out.res = "ok" THEN "cfg_read" ELSE "done",
                           updates |-> procs[p].updates, order |-> procs[p].order,
                           md |-> procs[p].md, read |-> config, out |-> out,
                           res |-> IF out.res = "ok" THEN "running" ELSE out.res]]
    /\ UNCHANGED <<entity, agentMd, projMd, userMd, config, backup, last, calls, answer>>

\* if md_modified: write_md_file
RaceWriteMd(p) ==
    /\ procs[p].pc = "cfg_read"
    /\ agentMd' = IF "agentMd" \in procs[p].out.writes
                  THEN procs[p].out.disk.agentMd ELSE agentMd
    /\ procs' = [procs EXCEPT ![p].pc = "md_written"]
    /\ UNCHANGED <<entity, projMd, userMd, config, backup, promptFiles, last, calls,
                   answer>>

\* if json_modified: write_config, which copies the file now on disk to the
\* backup; then Ok(())
RaceWriteConfig(p) ==
    /\ procs[p].pc = "md_written"
    /\ IF "config" \in procs[p].out.writes
       THEN LET written == write_config(config, backup,
                                        race_written(procs[p], config).doc)
            IN config' = written.config /\ backup' = written.backup
       ELSE UNCHANGED <<config, backup>>
    /\ procs' = [procs EXCEPT ![p].pc = "done", ![p].res = "ok"]
    /\ UNCHANGED <<entity, agentMd, projMd, userMd, promptFiles, last, calls, answer>>

NextRace ==
    \E p \in Procs :
        \/ RaceReadMd(p)
        \/ RaceReadConfig(p)
        \/ RaceWriteMd(p)
        \/ RaceWriteConfig(p)

SpecRace == Init /\ [][NextRace]_vars

-----------------------------------------------------------------------------
(* write_md_file followed by parse_md_file on the same path *)

\* the body texts: every text of at most MaxLen tokens, white space among them
BodyTokens == {" ", "\n", "x"}
BodyTexts == UNION {[1..n -> BodyTokens] : n \in 0..MaxLen}

\* the field mappings without null values
RoundTripMappings ==
    LET ords == {EmptyMap} \cup {insert(EmptyMap, OrdField, v) : v \in {OrdOld} \cup OrdValues}
    IN ords \cup {insert(m, KeptField, Str(<<"build">>)) : m \in ords}

\* one round trip on the file of a run's agent
WriteThenParse ==
    /\ calls = 0
    /\ calls' = 1
    /\ entity = "agent"
    /\ \E frontmatter \in RoundTripMappings : \E body \in BodyTexts :
        /\ agentMd' = write_md_file(frontmatter, body)
        /\ last' = [op |-> "write_then_parse", args |-> frontmatter, order |-> <<>>,
                    wd |-> FALSE, scope |-> "none", res |-> "ok",
                    writes |-> {"agentMd"}, repeat |-> FALSE, pre |-> Disk]
        /\ answer' = [body |-> body, parsed |-> parse_md_file(agentMd')]
    /\ UNCHANGED <<entity, projMd, userMd, config, backup, promptFiles, procs>>

NextRoundTrip == WriteThenParse

SpecRoundTrip == Init /\ [][NextRoundTrip]_vars

-----------------------------------------------------------------------------
(* write_config step by step: fs::copy of opencode.json to the backup,     *)
(* then fs::write of the new document.  Neither is atomic: while it runs   *)
(* its target holds a part of what is being written.  The process may stop *)
(* (a crash) at any point.  The call is procs[1].                          *)

\* a file that holds only a part of the content being written to it
Torn(file) == [exists |-> TRUE, torn |-> TRUE, of |-> file]

\* fs::copy with an existing backup left as it is
copy_keeping_existing(src, dst, complete) ==
    IF dst.exists THEN dst ELSE IF complete THEN src ELSE Torn(src)

\* fs::copy(src, dst): the target while the copy runs and when it is complete
copy(src, dst, complete) == IF complete THEN src ELSE Torn(src)

\* the documents handed to write_config
WrittenDocs ==
    {DocWith("agent", AgentName, r) :
        r \in {EmptyMap, insert(EmptyMap, OrdField, OrdOld)}
              \cup {insert(EmptyMap, OrdField, v) : v \in OrdValues}}

WcStep(pc) == procs' = [procs EXCEPT ![1].pc = pc]

\* write_config(config) is called
WcCall ==
    /\ entity = "agent"
    /\ procs[1].pc = "start"
    /\ \E doc \in WrittenDocs :
        procs' = [procs EXCEPT ![1] = [pc |-> "called", doc |-> doc]]
    /\ last' = [op |-> "write_config", args |-> EmptyMap, order |-> <<>>, wd |-> FALSE,
                scope |-> "none", res |-> "running", writes |-> {}, repeat |-> FALSE,
                pre |-> Disk]
    /\ UNCHANGED <<entity, agentMd, projMd, userMd, config, backup, promptFiles, calls,
                   answer>>

\* config_file.exists(): the copy begins
WcCopyBegin ==
    /\ procs[1].pc = "called"
    /\ config.exists
    /\ backup' = copy(config, backup, FALSE)
    /\ WcStep("copying")
    /\ UNCHANGED <<entity, agentMd, projMd, userMd, config, promptFiles, last, calls,
                   answer>>

WcCopyEnd ==
    /\ procs[1].pc = "copying"
    /\ backup' = copy(config, backup, TRUE)
    /\ WcStep("copied")
    /\ UNCHANGED <<entity, agentMd, projMd, userMd, config, promptFiles, last, calls,
                   answer>>

\* no opencode.json: no copy
WcNoCopy ==
    /\ procs[1].pc = "called"
    /\ ~config.exists
    /\ WcStep("copied")
    /\ UNCHANGED <<entity, agentMd, projMd, userMd, config, backup, promptFiles, last,
                   calls, answer>>

\* fs::write begins
WcWriteBegin ==
    /\ procs[1].pc = "copied"
    /\ config' = Torn([exists |-> TRUE, doc |-> procs[1].doc])
    /\ WcStep("writing")
    /\ UNCHANGED <<entity, agentMd, projMd, userMd, backup, promptFiles, last, calls,
                   answer>>

\* fs::write is complete: Ok(())
WcWriteEnd ==
    /\ procs[1].pc = "writing"
    /\ config' = [exists |-> TRUE, doc |-> procs[1].doc]
    /\ WcStep("done")
    /\ UNCHANGED <<entity, agentMd, projMd, userMd, backup, promptFiles, last, calls,
                   answer>>

\* the process stops where it is
WcCrash ==
    /\ procs[1].pc \in {"called", "copying", "copied", "writing"}
    /\ procs' = [procs EXCEPT ![1] = [pc |-> "crashed", doc |-> procs[1].doc,
                                      at |-> procs[1].pc]]
    /\ UNCHANGED <<entity, agentMd, projMd, userMd, config, backup, promptFiles, last,
                   calls, answer>>

NextCrash ==
    \/ WcCall
    \/ WcCopyBegin
    \/ WcCopyEnd
    \/ WcNoCopy
    \/ WcWriteBegin
    \/ WcWriteEnd
    \/ WcCrash

SpecCrash == Init /\ [][NextCrash]_vars

-----------------------------------------------------------------------------
(* The calls that write a command, from a disk with no file of the command *)

InitNoCommandFile ==
    /\ Init
    /\ entity = "command"
    /\ ~projMd.exists
    /\ ~userMd.exists

NextCommandWrite ==
    \/ CreateCommand
    \/ UpdateCommand
    \/ DeleteCommand

SpecNoCommandFile == InitNoCommandFile /\ [][NextCommandWrite]_vars

-----------------------------------------------------------------------------
(* What the properties below speak of *)

Section == IF entity = "agent" THEN "agent" ELSE "command"
Name == IF entity = "agent" THEN AgentName ELSE CommandName
BodyKey == IF entity = "agent" THEN "prompt" ELSE "template"

\* the entity's record in opencode.json on a disk (empty when there is none)
RecordOn(d) == existing_entry(read_config(d.config), Section, Name)

\* the entity's frontmatter file on a disk, as a call with the last call's
\* working directory finds it (NoFile when there is none)
MdOn(d) ==
    IF entity = "agent" THEN d.agentMd
    ELSE LET found == get_command_scope(d, last.wd) IN
         IF found.path = "none" THEN NoFile ELSE file_at(d, found.path)

\* the frontmatter mapping of a file (empty when there is no file)
FieldsOf(file) == IF file.exists THEN file.yaml ELSE EmptyMap

\* the body of a file is the text
BodyIs(file, text) == file.exists /\ file.rest = <<"\n">> \o text

LastUpdate == last.op \in {"update_agent", "update_command"}
LastCreate == last.op \in {"create_agent", "create_command"}
UpdateOk == LastUpdate /\ last.res = "ok"

\* the fields the last call gives a value that is not null
NonNullFields == {f \in DOMAIN last.args : ~is_null(last.args[f])}

\* the value is in the frontmatter file, as the body or as a field
StoredInMd(file, f, v) ==
    IF f = BodyKey THEN is_str(v) /\ BodyIs(file, v.s)
    ELSE contains_key(FieldsOf(file), f) /\ FieldsOf(file)[f] = v

\* the value is in the structured record under the key
StoredInJson(record, f, v) == contains_key(record, f) /\ record[f] = v

ConfigWritten == "config" \in last.writes
MdWritten == last.writes \cap {"agentMd", "projMd", "userMd"} # {}

-----------------------------------------------------------------------------
(* C1 *)

\* C1 (its "never stored in both" half): after a successful update_agent or
\* update_command, no non-null field of the update set has its new value
\* both in the entity's frontmatter file and in its structured record.
C1_NeverInBothStores ==
    UpdateOk =>
        \A f \in NonNullFields :
            ~(/\ StoredInMd(MdOn(Disk), f, last.args[f])
              /\ StoredInJson(RecordOn(Disk), f, last.args[f]))

-----------------------------------------------------------------------------
(* C2 *)

\* C2: when the agent has a frontmatter file, update_agent with a non-null
\* prompt (a text) makes that text the body of the file and neither adds nor
\* changes a prompt key in the agent's structured record.
C2_PromptOnlyInBody ==
    (/\ last.op = "update_agent"
     /\ last.res = "ok"
     /\ last.pre.agentMd.exists
     /\ "prompt" \in NonNullFields
     /\ is_str(last.args["prompt"]))
    => /\ BodyIs(agentMd, last.args["prompt"].s)
       /\ contains_key(RecordOn(Disk), "prompt")
              = contains_key(RecordOn(last.pre), "prompt")
       /\ contains_key(RecordOn(Disk), "prompt")
              => RecordOn(Disk)["prompt"] = RecordOn(last.pre)["prompt"]

-----------------------------------------------------------------------------
(* C3 *)

\* the last call is update_agent with the one ordinary field, not null
OneOrdinaryField ==
    /\ last.op = "update_agent"
    /\ DOMAIN last.args = {OrdField}
    /\ ~is_null(last.args[OrdField])

\* the call put the field into the frontmatter file and left opencode.json alone
WentToMd ==
    /\ agentMd.exists
    /\ agentMd.yaml = insert(FieldsOf(last.pre.agentMd), OrdField, last.args[OrdField])
    /\ ~ConfigWritten
    /\ config = last.pre.config

\* the call put the field into the structured record and left the file alone
WentToJson ==
    /\ RecordOn(Disk) = insert(RecordOn(last.pre), OrdField, last.args[OrdField])
    /\ ConfigWritten
    /\ agentMd = last.pre.agentMd

\* C3: update_agent with one ordinary non-null field f succeeds and: f a key
\* of the frontmatter is updated there; else f a key of the structured record
\* is updated there; else f goes to the structured record when the file
\* exists and the record is non-empty, to the frontmatter when the file
\* exists and the record is absent or empty, to the structured record when
\* there is no file.
C3_OrdinaryFieldRouting ==
    OneOrdinaryField =>
        /\ last.res = "ok"
        /\ IF contains_key(FieldsOf(last.pre.agentMd), OrdField) THEN WentToMd
           ELSE IF contains_key(RecordOn(last.pre), OrdField) THEN WentToJson
           ELSE IF last.pre.agentMd.exists /\ ~is_empty(RecordOn(last.pre)) THEN WentToJson
           ELSE IF last.pre.agentMd.exists THEN WentToMd
           ELSE WentToJson

\* a new field, both stores active: it went to the structured record
C3_Witness ==
    /\ OneOrdinaryField
    /\ last.pre.agentMd.exists
    /\ ~contains_key(FieldsOf(last.pre.agentMd), OrdField)
    /\ ~contains_key(RecordOn(last.pre), OrdField)
    /\ ~is_empty(RecordOn(last.pre))
    /\ StoredInJson(RecordOn(Disk), OrdField, last.args[OrdField])
    /\ ~contains_key(FieldsOf(agentMd), OrdField)

-----------------------------------------------------------------------------
(* C5 *)

\* the file a reference of the initial disk names
ReferencedFile(ref) ==
    IF ref = RefDot THEN <<"~", ".config", "opencode", "p.txt">>
    ELSE IF ref = RefAbs THEN <<"/", "p.txt">>
    ELSE NoPath

\* the last call is update_agent with a non-null prompt, for an agent with no
\* frontmatter file whose structured prompt is a reference that resolves
PromptThroughReference ==
    /\ last.op = "update_agent"
    /\ ~last.pre.agentMd.exists
    /\ "prompt" \in NonNullFields
    /\ contains_key(RecordOn(last.pre), "prompt")
    /\ is_str(RecordOn(last.pre)["prompt"])
    /\ ReferencedFile(RecordOn(last.pre)["prompt"].s) # NoPath

\* C5: such a call succeeds, writes the new text to the referenced file,
\* leaves the structured prompt equal to the reference and, when prompt is
\* the only field updated, does not write opencode.json.
C5_ReferenceWrite ==
    PromptThroughReference =>
        LET ref == RecordOn(last.pre)["prompt"]
            path == ReferencedFile(ref.s)
        IN /\ last.res = "ok"
           /\ contains_key(promptFiles, path)
           /\ promptFiles[path] =
                  [exists |-> TRUE, content |-> as_str_or_empty(last.args["prompt"])]
           /\ "promptFile" \in last.writes
           /\ StoredInJson(RecordOn(Disk), "prompt", ref)
           /\ ~agentMd.exists
           /\ DOMAIN last.args = {"prompt"} =>
                  /\ ~ConfigWritten
                  /\ config = last.pre.config
                  /\ backup = last.pre.backup

\* the text reached the file of an absolute, padded, upper-case reference
C5_Witness ==
    /\ PromptThroughReference
    /\ DOMAIN last.args = {"prompt"}
    /\ RecordOn(last.pre)["prompt"] = Str(RefAbs)
    /\ contains_key(promptFiles, <<"/", "p.txt">>)
    /\ promptFiles[<<"/", "p.txt">>].content = TextNew

-----------------------------------------------------------------------------
(* C4 *)

\* the last call is update_command for a command with no frontmatter file at
\* either scope
CommandWithoutMd ==
    /\ last.op = "update_command"
    /\ ~last.pre.projMd.exists
    /\ ~last.pre.userMd.exists

\* C4: update_command with a non-null ordinary field, on a command with no
\* frontmatter file at project or user scope and with a (non-empty)
\* structured record, writes the field to the structured record (updating the key when it is
\* there, adding it when it is new) and creates no frontmatter file.
C4_StructuredOnlyCommand ==
    (/\ CommandWithoutMd
     /\ last.res = "ok"
     /\ ~is_empty(RecordOn(last.pre))
     /\ DOMAIN last.args = {OrdField}
     /\ ~is_null(last.args[OrdField]))
    => /\ StoredInJson(RecordOn(Disk), OrdField, last.args[OrdField])
       /\ ~projMd.exists
       /\ ~userMd.exists

-----------------------------------------------------------------------------
(* C6 *)

\* C6: for a command with no frontmatter file at any scope whose structured
\* template is a reference that resolves, update_command with a non-null
\* template writes the new text to the referenced file, creates no
\* frontmatter file and leaves the structured template unchanged.
C6_TemplateThroughReference ==
    (/\ CommandWithoutMd
     /\ "template" \in NonNullFields
     /\ is_str(last.args["template"])
     /\ contains_key(RecordOn(last.pre), "template")
     /\ is_str(RecordOn(last.pre)["template"])
     /\ ReferencedFile(RecordOn(last.pre)["template"].s) # NoPath)
    => LET ref == RecordOn(last.pre)["template"]
           path == ReferencedFile(ref.s)
       IN /\ last.res = "ok"
          /\ contains_key(promptFiles, path)
          /\ promptFiles[path].content = last.args["template"].s
          /\ ~projMd.exists
          /\ ~userMd.exists
          /\ StoredInJson(RecordOn(Disk), "template", ref)

-----------------------------------------------------------------------------
(* C7 *)

\* every key of the update set is a key of the frontmatter mapping the call found
OnlyFrontmatterKeys ==
    /\ LastUpdate
    /\ DOMAIN last.args # {}
    /\ DOMAIN last.args \subseteq DOMAIN FieldsOf(MdOn(last.pre))

-----------------------------------------------------------------------------
(* C8 *)

NullFields == {f \in DOMAIN last.args : is_null(last.args[f])}

\* C8: after a successful update, every field given null is a key neither
\* of the frontmatter mapping nor of the structured record; and a call that
\* repeats a deletion (an update set of nulls only) succeeds, changes no
\* file and writes nothing.
C8_DeletionIdempotent ==
    /\ UpdateOk =>
           \A f \in NullFields :
               /\ ~contains_key(FieldsOf(MdOn(Disk)), f)
               /\ ~contains_key(RecordOn(Disk), f)
    /\ (LastUpdate /\ last.repeat /\ NullFields = DOMAIN last.args) =>
           /\ last.res = "ok"
           /\ last.writes = {}
           /\ Disk = last.pre

\* a repeated deletion, after the first one took the field out of the
\* structured record (the backup still holds it)
C8_Witness ==
    /\ LastUpdate
    /\ last.repeat
    /\ DOMAIN last.args = {OrdField}
    /\ NullFields = {OrdField}
    /\ backup.exists
    /\ contains_key(existing_entry(backup.doc, Section, Name), OrdField)
    /\ contains_key(section_of(config.doc, Section), Name)
    /\ ~contains_key(RecordOn(Disk), OrdField)
    /\ last.writes = {}

-----------------------------------------------------------------------------
(* C9 *)

\* the name is in its section of opencode.json before the last call
InSectionBefore ==
    contains_key(section_of(read_config(last.pre.config), Section), Name)

\* the last call is a create for a name that exists: as a frontmatter file
\* (for a command at the project path of the call's working directory, or at
\* the user path) or in the structured section
CreateOfExisting ==
    \/ /\ last.op = "create_agent"
       /\ last.pre.agentMd.exists \/ InSectionBefore
    \/ /\ last.op = "create_command"
       /\ \/ last.wd /\ last.pre.projMd.exists
          \/ last.pre.userMd.exists
          \/ InSectionBefore

\* C9: a create for a name that exists fails with the already-exists error
\* and writes nothing; no create overwrites a file.
C9_CreateRefusesExisting ==
    /\ CreateOfExisting => last.res = "exists" /\ last.writes = {} /\ Disk = last.pre
    /\ (LastCreate /\ last.res = "ok") =>
           \A w \in last.writes : ~last.pre[w].exists

\* a command that exists at project scope only was refused
C9_Witness ==
    /\ last.op = "create_command"
    /\ last.wd
    /\ last.pre.projMd.exists
    /\ ~last.pre.userMd.exists
    /\ ~InSectionBefore
    /\ last.res = "exists"

-----------------------------------------------------------------------------
(* C10 *)

\* the keys create does not write as fields
NotFields == IF entity = "agent" THEN {"prompt"} ELSE {"template", "scope"}

\* the fields a successful create is to write
FieldsToWrite ==
    [f \in {k \in DOMAIN last.args \ NotFields : ~is_null(last.args[k])} |-> last.args[f]]

\* the file the last create was to write
CreateTarget ==
    IF entity = "agent" THEN "agentMd"
    ELSE IF last.scope = "project" /\ last.wd THEN "projMd"
    ELSE "userMd"

CreateOk == LastCreate /\ last.res = "ok"

\* one file was written with the fields, and nothing else changed
CreateWroteFields ==
    /\ last.writes = {CreateTarget}
    /\ Disk[CreateTarget].exists
    /\ Disk[CreateTarget].yaml = FieldsToWrite
    /\ Disk = [last.pre EXCEPT ![CreateTarget] = Disk[CreateTarget]]

\* C10 as stated: a successful create writes exactly one frontmatter file,
\* whose body is the supplied prompt/template value and whose fields are the
\* supplied ones less prompt/template, scope (commands) and null values, and
\* leaves opencode.json unchanged.
C10_CreateWritesFile ==
    CreateOk =>
        /\ CreateWroteFields
        /\ contains_key(last.args, BodyKey) =>
               Str(Tail(Disk[CreateTarget].rest)) = last.args[BodyKey]

\* C10 as amended: the body is the supplied prompt/template value when that
\* is a string, and empty when it is absent or not a string.
C10_CreateWritesFileAmended ==
    CreateOk =>
        /\ CreateWroteFields
        /\ BodyIs(Disk[CreateTarget],
                  IF contains_key(last.args, BodyKey) /\ is_str(last.args[BodyKey])
                  THEN last.args[BodyKey].s ELSE <<>>)

\* a command created at project scope from a field set with a scope hint
C10_Witness ==
    /\ last.op = "create_command"
    /\ last.res = "ok"
    /\ contains_key(last.args, "scope")
    /\ projMd.exists
    /\ ~last.pre.projMd.exists
    /\ projMd.yaml = insert(EmptyMap, OrdField, Num(1))
    /\ BodyIs(projMd, TextNew)

-----------------------------------------------------------------------------
(* C11 *)

\* the structured section of the entity's kind in the document on a disk
SectionOn(d) == section_of(read_config(d.config), Section)

\* the document on the disk differs from the one before the last call in the
\* entity's section at most
OtherSectionsKept ==
    \A k \in (DOMAIN read_config(config) \cup DOMAIN read_config(last.pre.config))
                 \ {Section} :
        /\ contains_key(read_config(config), k)
        /\ contains_key(read_config(last.pre.config), k)
        /\ read_config(config)[k] = read_config(last.pre.config)[k]

Disabled == insert(EmptyMap, "disable", Bool(TRUE))

\* C11: delete_agent always succeeds.  For an agent with neither a
\* frontmatter file nor a structured entry the agent section afterwards maps
\* the name to exactly {disable: true} and every other entry is unchanged;
\* for an agent that existed in either place there is afterwards neither a
\* frontmatter file nor a structured entry.
C11_DeleteAgentNeverFails ==
    last.op = "delete_agent" =>
        /\ last.res = "ok"
        /\ ~agentMd.exists
        /\ IF ~last.pre.agentMd.exists /\ ~InSectionBefore
           THEN /\ SectionOn(Disk) = insert(SectionOn(last.pre), AgentName, Disabled)
                /\ OtherSectionsKept
           ELSE ~contains_key(SectionOn(Disk), AgentName)

\* an agent found nowhere was disabled, next to another agent's entry
C11_Witness ==
    /\ last.op = "delete_agent"
    /\ ~last.pre.agentMd.exists
    /\ ~InSectionBefore
    /\ contains_key(SectionOn(last.pre), OtherName)
    /\ SectionOn(Disk)[AgentName] = Disabled
    /\ SectionOn(Disk)[OtherName] = OtherRecord

-----------------------------------------------------------------------------
(* C12 *)

\* the command is in one of the three places on a disk
CommandAnywhere(d) ==
    \/ d.projMd.exists
    \/ d.userMd.exists
    \/ contains_key(section_of(read_config(d.config), "command"), CommandName)

\* C12: delete_command with a working directory removes a name found in any
\* of the project file, the user file and the structured section from every
\* one of them and succeeds; a name found in none gives the not-found error
\* and nothing is written.
C12_DeleteCommandEverywhere ==
    (last.op = "delete_command" /\ last.wd) =>
        IF CommandAnywhere(last.pre)
        THEN /\ last.res = "ok"
             /\ ~CommandAnywhere(Disk)
        ELSE /\ last.res = "notfound"
             /\ last.writes = {}
             /\ Disk = last.pre

\* a command held in all three places was removed from all three
C12_Witness ==
    /\ last.op = "delete_command"
    /\ last.wd
    /\ last.pre.projMd.exists
    /\ last.pre.userMd.exists
    /\ InSectionBefore
    /\ last.res = "ok"
    /\ ~CommandAnywhere(Disk)
    /\ contains_key(section_of(read_config(config), "command"), OtherName)

-----------------------------------------------------------------------------
(* C13 *)

\* the last call had a working directory and both files were there
BothFilesFound == last.wd /\ projMd.exists /\ userMd.exists

\* C13: with a working directory and both the project and the user file,
\* get_command_scope returns Project with the project path and
\* get_command_sources reports the same scope and path; User is returned
\* only when the project file is absent (or no working directory is given)
\* and the user file exists; (None, None) only when neither is found.
C13_ProjectTakesPrecedence ==
    /\ last.op = "get_command_scope" =>
           /\ BothFilesFound => answer = [scope |-> "project", path |-> "projMd"]
           /\ answer.scope = "user" =>
                  /\ answer.path = "userMd"
                  /\ ~projMd.exists \/ ~last.wd
                  /\ userMd.exists
           /\ answer.scope = "none" =>
                  /\ answer.path = "none"
                  /\ ~(last.wd /\ projMd.exists)
                  /\ ~userMd.exists
    /\ last.op = "get_command_sources" =>
           /\ BothFilesFound => answer.md.scope = "project" /\ answer.md.path = "projMd"
           /\ answer.md.scope = get_command_scope(Disk, last.wd).scope
           /\ answer.md.path = get_command_scope(Disk, last.wd).path

\* both files were there and get_command_sources reported the project file
C13_Witness ==
    /\ last.op = "get_command_sources"
    /\ BothFilesFound
    /\ answer.md.exists
    /\ answer.md.scope = "project"
    /\ answer.user_md.exists

-----------------------------------------------------------------------------
(* C14 *)

\* the location get_command_scope finds before the last call
ExistingBefore == get_command_scope(last.pre, last.wd)

\* C14: get_command_write_path returns the location get_command_scope finds
\* whenever there is one, whatever scope is requested; when there is none it
\* returns the project path only if Project is requested and a working
\* directory is given, and the user path in every other case.  update_command
\* writes its frontmatter to the existing location when there is one.
C14_WritePath ==
    /\ last.op = "get_command_write_path" =>
           IF ExistingBefore.path # "none"
           THEN answer = ExistingBefore
           ELSE IF last.scope = "project" /\ last.wd
           THEN answer = [scope |-> "project", path |-> "projMd"]
           ELSE answer = [scope |-> "user", path |-> "userMd"]
    /\ (last.op = "update_command" /\ ExistingBefore.path # "none") =>
           /\ last.writes \cap {"projMd", "userMd"} \subseteq {ExistingBefore.path}
           /\ \A f \in {"projMd", "userMd"} \ {ExistingBefore.path} :
                  Disk[f] = last.pre[f]

\* the user file was there and Project was requested with a working
\* directory: the user path was returned
C14_Witness ==
    /\ last.op = "get_command_write_path"
    /\ last.wd
    /\ last.scope = "project"
    /\ ~projMd.exists
    /\ userMd.exists
    /\ answer = [scope |-> "user", path |-> "userMd"]

-----------------------------------------------------------------------------
(* C15 *)

\* the loop's variables after the last field of the last update
LoopEnd ==
    IF last.op = "update_agent"
    THEN agent_loop(agent_loop_start(last.pre), last.pre.agentMd.exists,
                    last.args, last.order)
    ELSE LET md_path == get_command_write_path(last.pre, last.wd, "none").path
             md_exists == file_at(last.pre, md_path).exists
         IN command_loop(command_loop_start(last.pre, md_path), md_exists, ~md_exists,
                         last.args, last.order)

\* the update set gives nothing but nulls, to fields that neither the
\* frontmatter mapping nor the structured record holds
OnlyAbsentNulls ==
    \A f \in DOMAIN last.args :
        /\ is_null(last.args[f])
        /\ ~contains_key(FieldsOf(MdOn(last.pre)), f)
        /\ ~contains_key(RecordOn(last.pre), f)

\* C15: an update writes a store only if the store was flagged modified; a
\* call with an empty update set, or with nothing but null values for fields
\* that are in neither store, writes no frontmatter file, nor opencode.json,
\* nor its backup.
C15_WritesOnlyWhenModified ==
    LastUpdate =>
        /\ MdWritten => LoopEnd.md_modified
        /\ (ConfigWritten \/ "backup" \in last.writes) => LoopEnd.json_modified
        /\ OnlyAbsentNulls =>
               /\ last.res = "ok"
               /\ last.writes = {}
               /\ Disk = last.pre

\* a null for a field of neither store, both stores being there: no write
C15_Witness ==
    /\ LastUpdate
    /\ DOMAIN last.args = {OrdField}
    /\ OnlyAbsentNulls
    /\ MdOn(last.pre).exists
    /\ ~is_empty(RecordOn(last.pre))
    /\ last.writes = {}

-----------------------------------------------------------------------------
(* C16 *)

\* the last call is an update_agent that gives a prompt to an agent with no
\* frontmatter file whose structured prompt is a reference that does not
\* resolve
PromptThroughBadReference ==
    /\ last.op = "update_agent"
    /\ "prompt" \in NonNullFields
    /\ ~last.pre.agentMd.exists
    /\ contains_key(RecordOn(last.pre), "prompt")
    /\ is_str(RecordOn(last.pre)["prompt"])
    /\ is_prompt_file_reference(RecordOn(last.pre)["prompt"].s)
    /\ resolve_prompt_file_path(RecordOn(last.pre)["prompt"].s) = NoPath

\* C16: an update_agent that gives a prompt to an agent with no frontmatter
\* file, whose structured prompt is a file reference with an empty target,
\* returns the invalid-reference error and writes nothing, whatever else the
\* update set holds.
C16_BadReferenceAborts ==
    PromptThroughBadReference =>
        /\ last.res = "badref"
        /\ last.writes = {}
        /\ Disk = last.pre

\* the update set held another field as well, taken before the prompt
C16_Witness ==
    /\ PromptThroughBadReference
    /\ last.order = <<OrdField, "prompt">>
    /\ ~is_null(last.args[OrdField])
    /\ last.res = "badref"
    /\ config = last.pre.config

-----------------------------------------------------------------------------
(* C17 *)

AllDone == \A p \in Procs : procs[p].pc = "done"

\* the calls that have handed a document to write_config
ConfigWriters ==
    {p \in Procs : procs[p].pc = "done" /\ procs[p].res = "ok"
                   /\ "config" \in procs[p].out.writes}

\* C17 (what every interleaving does): a call never fails because of the
\* other, and once both have returned opencode.json is, whole, the document
\* one of the writers made from what it had read: the later write wins.
C17_LaterWriteWins ==
    AllDone =>
        /\ \A p \in Procs : procs[p].res = procs[p].out.res
        /\ ConfigWriters # {} =>
               \E p \in ConfigWriters : config = procs[p].out.disk.config

\* C17 (the interleaving): both calls returned success, the first wrote the
\* new value of its field (the backup is the document it wrote), and the
\* document left by the second holds the second's prompt and the first's
\* field as it was before the calls.
C17_Witness ==
    /\ AllDone
    /\ ConfigWriters = Procs
    /\ procs[1].updates = insert(EmptyMap, OrdField, Num(1))
    /\ procs[2].updates = insert(EmptyMap, "prompt", Str(TextNew))
    /\ StoredInJson(RecordOn(last.pre), OrdField, OrdOld)
    /\ backup.exists
    /\ StoredInJson(existing_entry(backup.doc, "agent", AgentName), OrdField, Num(1))
    /\ StoredInJson(RecordOn(Disk), OrdField, OrdOld)
    /\ StoredInJson(RecordOn(Disk), "prompt", Str(TextNew))

-----------------------------------------------------------------------------
(* C18 *)

\* the frontmatter files the last call wrote
MdFilesWritten == last.writes \cap {"agentMd", "projMd", "userMd"}

\* C18: no frontmatter file written by a create or an update holds a field
\* whose value is null.
C18_NoNullPersisted ==
    (LastCreate \/ LastUpdate) =>
        \A w \in MdFilesWritten :
            /\ Disk[w].exists
            /\ \A k \in DOMAIN Disk[w].yaml : ~is_null(Disk[w].yaml[k])

\* a create that was given a null field wrote a file without the field
C18_Witness ==
    /\ LastCreate
    /\ last.res = "ok"
    /\ contains_key(last.args, OrdField)
    /\ is_null(last.args[OrdField])
    /\ MdFilesWritten # {}
    /\ \A w \in MdFilesWritten : ~contains_key(Disk[w].yaml, OrdField)

-----------------------------------------------------------------------------
(* C19 *)

\* C19 as stated: for every field mapping without null values and every body
\* text, write_md_file followed by parse_md_file on the same path returns
\* the same field mapping and the same body text.
C19_RoundTrip ==
    last.op = "write_then_parse" =>
        /\ answer.parsed.frontmatter = last.args
        /\ answer.parsed.body = answer.body

\* the text has white space neither at its start nor at its end
Trimmed(text) ==
    text = <<>> \/ (Head(text) \notin Whitespace /\ text[Len(text)] \notin Whitespace)

\* the text without the white space at its start and at its end
Core(text) ==
    IF \A i \in DOMAIN text : text[i] \in Whitespace THEN <<>>
    ELSE LET first == CHOOSE i \in DOMAIN text :
                          /\ text[i] \notin Whitespace
                          /\ \A j \in 1..(i - 1) : text[j] \in Whitespace
             final == CHOOSE i \in DOMAIN text :
                          /\ text[i] \notin Whitespace
                          /\ \A j \in (i + 1)..Len(text) : text[j] \in Whitespace
         IN SubSeq(text, first, final)

\* C19 as amended: the round trip returns the same field mapping, and the
\* body text without the white space at its start and at its end: the same
\* body text when it has none there.
C19_RoundTripAmended ==
    last.op = "write_then_parse" =>
        /\ answer.parsed.frontmatter = last.args
        /\ answer.parsed.body = Core(answer.body)
        /\ Trimmed(answer.body) => answer.parsed.body = answer.body

\* a body with white space on both sides and a mapping of two fields came
\* back, the body without the white space
C19_Witness ==
    /\ last.op = "write_then_parse"
    /\ DOMAIN last.args = {OrdField, KeptField}
    /\ Len(answer.body) = MaxLen
    /\ Head(answer.body) = "x"
    /\ answer.body[Len(answer.body)] = "\n"
    /\ answer.parsed.body # answer.body
    /\ answer.parsed.frontmatter = last.args

-----------------------------------------------------------------------------
(* C20 *)

\* C20: whatever the starting state and the update set, update_agent leaves
\* the same frontmatter document and the same structured record in whichever
\* order it takes the fields of the update set.
C20_OrderIndependent ==
    last.op = "update_agent" =>
        \A order \in Orders(DOMAIN last.args) :
            LET other == update_agent(last.pre, last.args, order)
            IN /\ other.res = last.res
               /\ other.disk.agentMd = agentMd
               /\ RecordOn(other.disk) = RecordOn(Disk)

-----------------------------------------------------------------------------
(* C21 *)

\* the last update found a frontmatter file and no structured record, or an
\* empty one
FrontmatterOnly ==
    /\ LastUpdate
    /\ MdOn(last.pre).exists
    /\ is_empty(RecordOn(last.pre))

\* the last update changed the structured record and left the change unwritten
Suppressed ==
    /\ FrontmatterOnly
    /\ last.res = "ok"
    /\ LoopEnd.json_modified

\* the frontmatter file holds what the update gave for the field: as a field,
\* or as the body (a prompt or template that is no string counts as empty)
InWrittenMd(file, f) ==
    IF f = BodyKey THEN BodyIs(file, as_str_or_empty(last.args[f]))
    ELSE StoredInMd(file, f, last.args[f])

\* C21: when an update suppresses the structured write, every field the
\* update set gives a value other than null has that value in the
\* frontmatter document the call wrote, as a field or as the body.
C21_SuppressionLosesNothing ==
    Suppressed =>
        /\ MdWritten
        /\ \A f \in NonNullFields : InWrittenMd(MdOn(Disk), f)

-----------------------------------------------------------------------------
(* C22 *)

\* C22: an update of an entity that has a frontmatter file and no structured
\* record, or an empty one, never writes opencode.json: the structured
\* document is after the call what it was before, whatever the update set.
C22_FrontmatterOnlyKeepsJson ==
    FrontmatterOnly =>
        /\ ~ConfigWritten
        /\ config = last.pre.config
        /\ backup = last.pre.backup

\* the call changed its copy of the record (a prompt for an agent that lives
\* in its file) and opencode.json, which held an empty record, was left alone
C22_Witness ==
    /\ Suppressed
    /\ last.op = "update_agent"
    /\ "prompt" \in NonNullFields
    /\ InSectionBefore
    /\ config = last.pre.config
    /\ MdWritten

-----------------------------------------------------------------------------
(* C23 *)

\* the entity's record holds under the key what it held before the last call
KeyKept(k) ==
    /\ contains_key(RecordOn(Disk), k) <=> contains_key(RecordOn(last.pre), k)
    /\ contains_key(RecordOn(Disk), k) => RecordOn(Disk)[k] = RecordOn(last.pre)[k]

\* the section holds for the other entities what it held before the last call
OtherEntitiesKept ==
    /\ DOMAIN SectionOn(Disk) \ {Name} = DOMAIN SectionOn(last.pre) \ {Name}
    /\ \A n \in DOMAIN SectionOn(Disk) \ {Name} :
           SectionOn(Disk)[n] = SectionOn(last.pre)[n]

\* C23: a structured write by an update changes, in opencode.json, only the
\* keys the update set names, in the record of the updated entity: every
\* other key of the record, the record of every other entity of the section
\* and every other top-level section are as before the call.
C23_StructuredWriteFrame ==
    (LastUpdate /\ ConfigWritten) =>
        /\ \A k \in (DOMAIN RecordOn(Disk) \cup DOMAIN RecordOn(last.pre))
                        \ DOMAIN last.args : KeyKept(k)
        /\ OtherEntitiesKept
        /\ OtherSectionsKept

\* a field of a record was given a new value next to a key the update did
\* not name, another entity and another section
C23_Witness ==
    /\ LastUpdate
    /\ ConfigWritten
    /\ DOMAIN last.args = {OrdField}
    /\ StoredInJson(RecordOn(Disk), OrdField, Num(1))
    /\ contains_key(RecordOn(last.pre), KeptField)
    /\ KeyKept(KeptField)
    /\ contains_key(SectionOn(Disk), OtherName)
    /\ contains_key(read_config(config), "theme")

-----------------------------------------------------------------------------
(* C24 *)

\* C24: after a call that wrote opencode.json with write_config, the backup
\* file holds what opencode.json held just before the call if the file was
\* there (an earlier backup is overwritten), and is as before the call (not
\* created, not changed) if it was not.
C24_SingleGenerationBackup ==
    ConfigWritten =>
        IF last.pre.config.exists
        THEN backup = last.pre.config /\ "backup" \in last.writes
        ELSE backup = last.pre.backup /\ "backup" \notin last.writes

\* a second write replaced the backup the first write had made
C24_Witness ==
    /\ ConfigWritten
    /\ last.pre.config.exists
    /\ last.pre.backup.exists
    /\ last.pre.backup # last.pre.config
    /\ backup = last.pre.config
    /\ config # backup

-----------------------------------------------------------------------------
(* C25 *)

\* write_config has been called on an opencode.json that was there
WcOnExisting == last.op = "write_config" /\ last.pre.config.exists

\* C25: from the call of write_config on an existing opencode.json to its
\* return, and wherever the process stops in between (while the copy runs,
\* between the copy and the write, while the write runs), opencode.json or
\* its backup holds the whole document as it was before the call.
C25_CrashRecoverable ==
    WcOnExisting =>
        /\ config = last.pre.config \/ backup = last.pre.config
        /\ procs[1].pc = "done" =>
               /\ backup = last.pre.config
               /\ config = write_config(last.pre.config, last.pre.backup,
                                        procs[1].doc).config

\* the process stopped while the write ran: opencode.json holds a part of
\* the new document, the backup the old one
C25_Witness ==
    /\ WcOnExisting
    /\ procs[1].pc = "crashed"
    /\ procs[1].at = "writing"
    /\ config = Torn([exists |-> TRUE, doc |-> procs[1].doc])
    /\ last.pre.backup # last.pre.config
    /\ backup = last.pre.config

-----------------------------------------------------------------------------
(* C26 *)

\* C26: a delete_agent that follows a delete_agent of the same name leaves
\* the frontmatter file and the structured document as the first call left
\* them: what the first call removed or disabled is still removed or
\* disabled.
C26_DeleteAgentIdempotent ==
    (last.op = "delete_agent" /\ last.repeat) =>
        /\ agentMd = last.pre.agentMd
        /\ read_config(config) = read_config(last.pre.config)

-----------------------------------------------------------------------------
(* C27 *)

BothScopes == projMd.exists /\ userMd.exists

\* C27 as stated: from a disk where the command has a frontmatter file at
\* neither scope, no sequence of create_command, update_command and
\* delete_command calls, whatever their working directory and scope, reaches
\* a state where the project file and the user file both exist.
C27_NeverBothScopes == ~BothScopes

\* C27 as amended: from such a disk, a call that is given the working
\* directory never makes the second file: no sequence of calls that are all
\* given the working directory reaches a state where both files exist.
C27_NeverBothScopesAmended ==
    [][(last'.wd /\ ~BothScopes) => ~BothScopes']_vars

\* an update with the working directory was written to the project file, the
\* only one, and made no user file
C27_Witness ==
    /\ last.op = "update_command"
    /\ last.wd
    /\ last.pre.projMd.exists
    /\ ~last.pre.userMd.exists
    /\ "projMd" \in last.writes
    /\ ~userMd.exists

=============================================================================
